---- MODULE Spec2Model ----
(***************************************************************************)
(* LoRa two-way messaging node (ESP32 + SX1278), src/ESP32_Config/src/     *)
(* main.cpp.  Each node runs setup() once and then loop() forever.  The    *)
(* model follows the control flow of main.cpp statement group by statement *)
(* group; the peripherals (USB serial, Bluetooth serial, LoRa radio,       *)
(* buzzer pin) are the node's interface with its environment.              *)
(*                                                                         *)
(* Text is a sequence of one-character strings; a printed line is a        *)
(* sequence of string pieces (the literal pieces the code concatenates,    *)
(* followed by the characters of the message).                             *)
(***************************************************************************)
EXTENDS Integers, Sequences, FiniteSets, TLC

\* ------------------------------------------------------------------ bounds
\* Number of environment events (a byte typed on a serial channel, a foreign
\* radio packet) in one behaviour of the single-node specification.
MaxEvents == 3
\* Number of terminal events (a byte, a long line) in the two-node specification.
MaxEventsRT == 2

\* ---------------------------------------------------------------- alphabet
\* the characters isspace() accepts: space, \t, \n, \v, \f, \r (the string
\* "\\v" stands for the vertical tab)
Spaces == {" ", "\t", "\n", "\\v", "\f", "\r"}
\* what the USB terminal types, one byte at a time (lines end in CR LF)
UsbChars == {"a", " ", "\r", "\n"}
\* what the Bluetooth terminal types
BtChars == {"b", "\t", "\n"}
\* what the terminals of the sending node type in the two-node specification
RTChars == {"a", " ", "\n"}
RTBtChars == {"b"}
\* LoRaClass::write() clamps a packet to this many bytes
MAX_PKT_LENGTH == 255
\* a line one byte longer than a packet, sent by a terminal in one burst
LongLine == [i \in 1..(MAX_PKT_LENGTH + 1) |-> "a"] \o <<"\n">>
\* what a foreign transmitter may put in a packet
Payloads == {<<>>, <<" ", "b">>}

VARIABLES
    pc,          \* per node: the statement the node is at
    stack,       \* per node: return addresses of the calls in progress
    message,     \* per node: loop()'s String message (while readStringUntil runs, the
                 \* bytes read so far), then sendLoRaMessage's argument
    sourceTag,   \* per node: sendLoRaMessage's argument sourceTag
    prMsg,       \* per node: printToAll's argument
    beepI,       \* per node: buzzerBeep's loop counter i
    beepCount,   \* per node: buzzerBeep's argument count
    buzzerPin,   \* per node: level of BUZZER_PIN
    usbIn,       \* per node: bytes pending on Serial
    btIn,        \* per node: bytes pending on SerialBT
    radioRx,     \* per node: packets the radio has received and not yet parsed
    io,          \* per node: the node's peripheral operations, in order
    iterBase,    \* per node: Len(io) when the current loop() call was entered
    air,         \* packets transmitted and not yet delivered: [to, data]
    budget       \* environment events still allowed

vars == <<pc, stack, message, sourceTag, prMsg, beepI, beepCount, buzzerPin,
          usbIn, btIn, radioRx, io, iterBase, air, budget>>

envVars == <<usbIn, btIn, radioRx, air, budget>>
beepVars == <<beepI, beepCount, buzzerPin>>

Nodes == DOMAIN pc

\* ------------------------------------------------------- peripheral events
Ev(op, ch, data) == [op |-> op, ch |-> ch, data |-> data]
EvRead(ch, raw) == Ev("read", ch, raw)       \* readStringUntil on channel ch
EvOut(ch, line) == Ev("out", ch, line)       \* println on channel ch
EvTx(payload) == Ev("tx", "LORA", payload)   \* beginPacket/print/endPacket
EvRx(payload) == Ev("rx", "LORA", payload)   \* parsePacket took a packet
EvPin(level) == Ev("pin", "BUZZER", <<level>>)

\* ------------------------------------------------------------ pure helpers
IsSpace(c) == c \in Spaces

RECURSIVE TrimLeft(_)
TrimLeft(s) == IF s # <<>> /\ IsSpace(Head(s)) THEN TrimLeft(Tail(s)) ELSE s

RECURSIVE TrimRight(_)
TrimRight(s) ==
    IF s # <<>> /\ IsSpace(s[Len(s)]) THEN TrimRight(SubSeq(s, 1, Len(s) - 1)) ELSE s

\* mutant: message.trim() forgotten
trim_none(s) == s

\* String::trim()
trim(s) == TrimRight(TrimLeft(s))

\* index of the first '\n' of buf, 0 when there is none
FirstNewline(buf) ==
    LET S == {k \in 1..Len(buf) : buf[k] = "\n"}
    IN  IF S = {} THEN 0 ELSE CHOOSE k \in S : \A j \in S : k <= j

\* Stream::readStringUntil('\n') on the bytes pending now: the bytes before
\* the first '\n' (which is consumed and not returned), or every pending byte
\* when there is no '\n' yet
readStringUntil(buf) ==
    LET k == FirstNewline(buf)
    IN  IF k = 0 THEN buf ELSE SubSeq(buf, 1, k - 1)

afterRead(buf) ==
    LET k == FirstNewline(buf)
    IN  IF k = 0 THEN <<>> ELSE SubSeq(buf, k + 1, Len(buf))

\* LoRa.print(message) between beginPacket() and endPacket(): the bytes that
\* fit in one packet
loraPrint(msg) ==
    IF Len(msg) > MAX_PKT_LENGTH THEN SubSeq(msg, 1, MAX_PKT_LENGTH) ELSE msg

\* String("[TX ") + sourceTag + "] " + message
TxLine(tag, msg) == <<"[TX ", tag, "] ">> \o msg

\* String("[RX] ") + incoming
RxLine(incoming) == <<"[RX] ">> \o incoming

\* while (LoRa.available()) incoming += (char)LoRa.read();
\* (the i-th byte read is appended i-th)
drain(packet, incoming) ==
    incoming \o [i \in 1..Len(packet) |-> packet[i]]

ErrLine == <<"ERROR: LoRa init failed!">>

\* the printToAll calls of setup(): label |-> line printed, next label
SetupLines ==
    [setup_banner1 |-> [msg |-> <<"LoRa Two-Way Chat">>, ret |-> "setup_banner2"],
     setup_banner2 |-> [msg |-> <<"Initializing...">>, ret |-> "setup_banner3"],
     setup_banner3 |-> [msg |-> <<"Bluetooth device name: ", "Sting_Node_2">>,
                        ret |-> "setup_lora"],
     setup_ok1 |-> [msg |-> <<"LoRa initialized successfully!">>, ret |-> "setup_ok2"],
     setup_ok2 |-> [msg |-> <<"Ready to send and receive messages.">>,
                    ret |-> "setup_ok3"],
     setup_ok3 |-> [msg |-> <<"Input channels: USB Serial + Bluetooth Serial">>,
                    ret |-> "setup_ok4"],
     setup_ok4 |-> [msg |-> <<"-----------------------------------">>,
                    ret |-> "setup_beep"]]

Upd(f, n, v) == [f EXCEPT ![n] = v]
Log(n, evs) == io' = Upd(io, n, io[n] \o evs)

\* ------------------------------------------------------------------ setup()
\* Serial.begin; SerialBT.begin; pinMode(BUZZER_PIN, OUTPUT); digitalWrite LOW
setup_init(n) ==
    /\ pc[n] = "setup"
    /\ buzzerPin' = Upd(buzzerPin, n, "LOW")
    /\ Log(n, <<EvPin("LOW")>>)
    /\ pc' = Upd(pc, n, "setup_banner1")
    /\ UNCHANGED <<stack, message, sourceTag, prMsg, beepI, beepCount, iterBase>>
    /\ UNCHANGED envVars

\* printToAll("...") in setup()
setup_print(n) ==
    /\ pc[n] \in DOMAIN SetupLines
    /\ prMsg' = Upd(prMsg, n, SetupLines[pc[n]].msg)
    /\ stack' = Upd(stack, n, <<SetupLines[pc[n]].ret>> \o stack[n])
    /\ pc' = Upd(pc, n, "printToAll")
    /\ UNCHANGED <<message, sourceTag, io, iterBase>>
    /\ UNCHANGED beepVars
    /\ UNCHANGED envVars

\* mutant: the halt loop is missing, setup() goes on after the error line
setup_lora_nohalt(n) ==
    /\ pc[n] = "setup_lora"
    /\ \E ok \in BOOLEAN :
          IF ok
          THEN /\ pc' = Upd(pc, n, "setup_ok1")
               /\ UNCHANGED <<prMsg, stack>>
          ELSE /\ prMsg' = Upd(prMsg, n, ErrLine)
               /\ stack' = Upd(stack, n, <<"setup_ok1">> \o stack[n])
               /\ pc' = Upd(pc, n, "printToAll")
    /\ UNCHANGED <<message, sourceTag, io, iterBase>>
    /\ UNCHANGED beepVars
    /\ UNCHANGED envVars

\* LoRa.setPins; if (!LoRa.begin(LORA_FREQUENCY)) { printToAll(error); halt }
setup_lora(n) ==
    /\ pc[n] = "setup_lora"
    /\ \E ok \in BOOLEAN :
          IF ok
          THEN /\ pc' = Upd(pc, n, "setup_ok1")
               /\ UNCHANGED <<prMsg, stack>>
          ELSE /\ prMsg' = Upd(prMsg, n, ErrLine)
               /\ stack' = Upd(stack, n, <<"halt">> \o stack[n])
               /\ pc' = Upd(pc, n, "printToAll")
    /\ UNCHANGED <<message, sourceTag, io, iterBase>>
    /\ UNCHANGED beepVars
    /\ UNCHANGED envVars

\* while (1) { delay(1000); }
setup_halt(n) ==
    /\ pc[n] = "halt"
    /\ UNCHANGED vars

\* mutant: buzzerBeep() called with its default count of 2
setup_beep_default(n) ==
    /\ pc[n] = "setup_beep"
    /\ beepI' = Upd(beepI, n, 0)
    /\ beepCount' = Upd(beepCount, n, 2)
    /\ stack' = Upd(stack, n, <<"loop_usb">> \o stack[n])
    /\ pc' = Upd(pc, n, "buzzerBeep")
    /\ UNCHANGED <<message, sourceTag, prMsg, buzzerPin, io, iterBase>>
    /\ UNCHANGED envVars

\* buzzerBeep(100, 1) at the end of setup()
setup_beep(n) ==
    /\ pc[n] = "setup_beep"
    /\ beepI' = Upd(beepI, n, 0)
    /\ beepCount' = Upd(beepCount, n, 1)
    /\ stack' = Upd(stack, n, <<"loop_usb">> \o stack[n])
    /\ pc' = Upd(pc, n, "buzzerBeep")
    /\ UNCHANGED <<message, sourceTag, prMsg, buzzerPin, io, iterBase>>
    /\ UNCHANGED envVars

\* ------------------------------------------------------------- printToAll()
\* mutant: the first println goes to SerialBT as well
printToAll_usb_bt(n) ==
    /\ pc[n] = "printToAll"
    /\ Log(n, <<EvOut("BT", prMsg[n])>>)
    /\ pc' = Upd(pc, n, "printToAll_bt")
    /\ UNCHANGED <<stack, message, sourceTag, prMsg, iterBase>>
    /\ UNCHANGED beepVars
    /\ UNCHANGED envVars

\* Serial.println(message)
printToAll_usb(n) ==
    /\ pc[n] = "printToAll"
    /\ Log(n, <<EvOut("USB", prMsg[n])>>)
    /\ pc' = Upd(pc, n, "printToAll_bt")
    /\ UNCHANGED <<stack, message, sourceTag, prMsg, iterBase>>
    /\ UNCHANGED beepVars
    /\ UNCHANGED envVars

\* SerialBT.println(message); return
printToAll_bt(n) ==
    /\ pc[n] = "printToAll_bt"
    /\ Log(n, <<EvOut("BT", prMsg[n])>>)
    /\ prMsg' = Upd(prMsg, n, <<>>)
    /\ pc' = Upd(pc, n, Head(stack[n]))
    /\ stack' = Upd(stack, n, Tail(stack[n]))
    /\ UNCHANGED <<message, sourceTag, iterBase>>
    /\ UNCHANGED beepVars
    /\ UNCHANGED envVars

\* ------------------------------------------------------------- buzzerBeep()
\* for (i < count): digitalWrite(BUZZER_PIN, HIGH); loop exit returns
buzzerBeep_high(n) ==
    /\ pc[n] = "buzzerBeep"
    /\ IF beepI[n] < beepCount[n]
       THEN /\ buzzerPin' = Upd(buzzerPin, n, "HIGH")
            /\ Log(n, <<EvPin("HIGH")>>)
            /\ pc' = Upd(pc, n, "buzzerBeep_on")
            /\ UNCHANGED <<stack, beepI, beepCount>>
       ELSE /\ pc' = Upd(pc, n, Head(stack[n]))
            /\ stack' = Upd(stack, n, Tail(stack[n]))
            /\ beepI' = Upd(beepI, n, 0)
            /\ beepCount' = Upd(beepCount, n, 0)
            /\ UNCHANGED <<buzzerPin, io>>
    /\ UNCHANGED <<message, sourceTag, prMsg, iterBase>>
    /\ UNCHANGED envVars

\* mutant: buzzerBeep returns after its first pulse
buzzerBeep_low_return(n) ==
    /\ pc[n] = "buzzerBeep_on"
    /\ buzzerPin' = Upd(buzzerPin, n, "LOW")
    /\ Log(n, <<EvPin("LOW")>>)
    /\ beepI' = Upd(beepI, n, 0)
    /\ beepCount' = Upd(beepCount, n, 0)
    /\ pc' = Upd(pc, n, Head(stack[n]))
    /\ stack' = Upd(stack, n, Tail(stack[n]))
    /\ UNCHANGED <<message, sourceTag, prMsg, iterBase>>
    /\ UNCHANGED envVars

\* mutant: the pin is written LOW only inside `if (i < count - 1)`
buzzerBeep_low_gap(n) ==
    /\ pc[n] = "buzzerBeep_on"
    /\ IF beepI[n] < beepCount[n] - 1
       THEN /\ buzzerPin' = Upd(buzzerPin, n, "LOW")
            /\ Log(n, <<EvPin("LOW")>>)
       ELSE UNCHANGED <<buzzerPin, io>>
    /\ beepI' = Upd(beepI, n, beepI[n] + 1)
    /\ pc' = Upd(pc, n, "buzzerBeep")
    /\ UNCHANGED <<stack, message, sourceTag, prMsg, beepCount, iterBase>>
    /\ UNCHANGED envVars

\* delay(duration); digitalWrite(BUZZER_PIN, LOW); if (i < count-1) delay; i++
buzzerBeep_low(n) ==
    /\ pc[n] = "buzzerBeep_on"
    /\ buzzerPin' = Upd(buzzerPin, n, "LOW")
    /\ Log(n, <<EvPin("LOW")>>)
    /\ beepI' = Upd(beepI, n, beepI[n] + 1)
    /\ pc' = Upd(pc, n, "buzzerBeep")
    /\ UNCHANGED <<stack, message, sourceTag, prMsg, beepCount, iterBase>>
    /\ UNCHANGED envVars

\* -------------------------------------------------------------------- loop()
\* the bytes pending on serial channel ch of node n
pending(n, ch) == IF ch = "USB" THEN usbIn[n] ELSE btIn[n]

\* where the node waits inside readStringUntil on channel ch
ReadLabel(ch) == IF ch = "USB" THEN "loop_usb_read" ELSE "loop_bt_read"

\* readStringUntil('\n') with `got` already read, then trim() and the call of
\* sendLoRaMessage(message, tag) up to its printToAll.  The read takes the
\* bytes pending; it returns at a '\n', or when timedRead() finds no byte
\* (nothing pending while it waits); otherwise it goes on waiting.
serialRead(n, ch, tag, next, got) ==
    LET buf == pending(n, ch)
    IN  IF FirstNewline(buf) # 0 \/ buf = <<>>
        THEN LET raw == got \o readStringUntil(buf)
                 msg == trim(raw)
             IN  /\ Log(n, <<EvRead(ch, raw)>>)
                 /\ IF Len(msg) > 0
                    THEN /\ message' = Upd(message, n, msg)
                         /\ sourceTag' = Upd(sourceTag, n, tag)
                         /\ prMsg' = Upd(prMsg, n, TxLine(tag, msg))
                         /\ stack' = Upd(stack, n,
                                          <<"sendLoRaMessage_tx", next>> \o stack[n])
                         /\ pc' = Upd(pc, n, "printToAll")
                    ELSE /\ message' = Upd(message, n, <<>>)
                         /\ pc' = Upd(pc, n, next)
                         /\ UNCHANGED <<sourceTag, prMsg, stack>>
        ELSE /\ message' = Upd(message, n, got \o buf)
             /\ pc' = Upd(pc, n, ReadLabel(ch))
             /\ UNCHANGED <<sourceTag, prMsg, stack, io>>

\* mutant: `while (X.available())` instead of `if (X.available())`
pollSerial_while(n, ch, tag, next) ==
    IF pending(n, ch) # <<>>
    THEN serialRead(n, ch, tag,
                    IF afterRead(pending(n, ch)) # <<>> THEN pc[n] ELSE next, <<>>)
    ELSE /\ pc' = Upd(pc, n, next)
         /\ UNCHANGED <<message, sourceTag, prMsg, stack, io>>

\* `if (X.available()) { String message = X.readStringUntil('\n'); ... }`
pollSerial(n, ch, tag, next) ==
    IF pending(n, ch) # <<>>
    THEN serialRead(n, ch, tag, next, <<>>)
    ELSE /\ pc' = Upd(pc, n, next)
         /\ UNCHANGED <<message, sourceTag, prMsg, stack, io>>

\* loop() entry; if (Serial.available()) { ... }
loop_usb(n) ==
    /\ pc[n] = "loop_usb"
    /\ iterBase' = Upd(iterBase, n, Len(io[n]))
    /\ pollSerial(n, "USB", "USB", "loop_bt")
    /\ usbIn' = Upd(usbIn, n, afterRead(usbIn[n]))
    /\ UNCHANGED <<btIn, radioRx, air, budget>>
    /\ UNCHANGED beepVars

\* Serial.readStringUntil('\n') waiting for the rest of the line
loop_usb_read(n) ==
    /\ pc[n] = "loop_usb_read"
    /\ serialRead(n, "USB", "USB", "loop_bt", message[n])
    /\ usbIn' = Upd(usbIn, n, afterRead(usbIn[n]))
    /\ UNCHANGED <<btIn, radioRx, air, budget, iterBase>>
    /\ UNCHANGED beepVars

\* if (SerialBT.available()) { ... }
loop_bt(n) ==
    /\ pc[n] = "loop_bt"
    /\ pollSerial(n, "BT", "BT", "loop_radio")
    /\ btIn' = Upd(btIn, n, afterRead(btIn[n]))
    /\ UNCHANGED <<usbIn, radioRx, air, budget, iterBase>>
    /\ UNCHANGED beepVars

\* SerialBT.readStringUntil('\n') waiting for the rest of the line
loop_bt_read(n) ==
    /\ pc[n] = "loop_bt_read"
    /\ serialRead(n, "BT", "BT", "loop_radio", message[n])
    /\ btIn' = Upd(btIn, n, afterRead(btIn[n]))
    /\ UNCHANGED <<usbIn, radioRx, air, budget, iterBase>>
    /\ UNCHANGED beepVars

\* LoRa.beginPacket(); LoRa.print(message); LoRa.endPacket(); return
sendLoRaMessage_tx(n) ==
    /\ pc[n] = "sendLoRaMessage_tx"
    /\ Log(n, <<EvTx(loraPrint(message[n]))>>)
    /\ air' = air \o [k \in 1..(IF Cardinality(Nodes) > 1 THEN 1 ELSE 0) |->
                        [to |-> CHOOSE m \in Nodes : m # n,
                         data |-> loraPrint(message[n])]]
    /\ message' = Upd(message, n, <<>>)
    /\ sourceTag' = Upd(sourceTag, n, "")
    /\ pc' = Upd(pc, n, Head(stack[n]))
    /\ stack' = Upd(stack, n, Tail(stack[n]))
    /\ UNCHANGED <<prMsg, iterBase, usbIn, btIn, radioRx, budget>>
    /\ UNCHANGED beepVars

\* int packetSize = LoRa.parsePacket(); if (packetSize) { drain; printToAll }
loop_radio(n) ==
    /\ pc[n] = "loop_radio"
    /\ IF radioRx[n] # <<>>
       THEN LET packet == Head(radioRx[n])
                packetSize == Len(packet)
            IN  /\ radioRx' = Upd(radioRx, n, Tail(radioRx[n]))
                /\ Log(n, <<EvRx(packet)>>)
                /\ IF packetSize # 0
                   THEN /\ prMsg' = Upd(prMsg, n, RxLine(drain(packet, <<>>)))
                        /\ stack' = Upd(stack, n, <<"loop_beep">> \o stack[n])
                        /\ pc' = Upd(pc, n, "printToAll")
                   ELSE /\ pc' = Upd(pc, n, "loop_usb")
                        /\ UNCHANGED <<prMsg, stack>>
       ELSE /\ pc' = Upd(pc, n, "loop_usb")
            /\ UNCHANGED <<prMsg, stack, io, radioRx>>
    /\ UNCHANGED <<message, sourceTag, iterBase, usbIn, btIn, air, budget>>
    /\ UNCHANGED beepVars

\* mutant: buzzerBeep(100, 1) after a received packet
loop_beep_once(n) ==
    /\ pc[n] = "loop_beep"
    /\ beepI' = Upd(beepI, n, 0)
    /\ beepCount' = Upd(beepCount, n, 1)
    /\ stack' = Upd(stack, n, <<"loop_usb">> \o stack[n])
    /\ pc' = Upd(pc, n, "buzzerBeep")
    /\ UNCHANGED <<message, sourceTag, prMsg, buzzerPin, io, iterBase>>
    /\ UNCHANGED envVars

\* buzzerBeep(100, 2) after a received packet; then loop() returns
loop_beep(n) ==
    /\ pc[n] = "loop_beep"
    /\ beepI' = Upd(beepI, n, 0)
    /\ beepCount' = Upd(beepCount, n, 2)
    /\ stack' = Upd(stack, n, <<"loop_usb">> \o stack[n])
    /\ pc' = Upd(pc, n, "buzzerBeep")
    /\ UNCHANGED <<message, sourceTag, prMsg, buzzerPin, io, iterBase>>
    /\ UNCHANGED envVars

\* -------------------------------------------------------------- environment
progVars == <<pc, stack, message, sourceTag, prMsg, beepI, beepCount, buzzerPin,
              io, iterBase>>

\* a byte arrives on the USB serial input
UsbArrive(n, c) ==
    /\ budget > 0
    /\ budget' = budget - 1
    /\ usbIn' = Upd(usbIn, n, Append(usbIn[n], c))
    /\ UNCHANGED <<btIn, radioRx, air>>
    /\ UNCHANGED progVars

\* a whole long line arrives on the USB serial input
UsbPaste(n) ==
    /\ budget > 0
    /\ budget' = budget - 1
    /\ usbIn' = Upd(usbIn, n, usbIn[n] \o LongLine)
    /\ UNCHANGED <<btIn, radioRx, air>>
    /\ UNCHANGED progVars

\* a byte arrives on the Bluetooth serial input
BtArrive(n, c) ==
    /\ budget > 0
    /\ budget' = budget - 1
    /\ btIn' = Upd(btIn, n, Append(btIn[n], c))
    /\ UNCHANGED <<usbIn, radioRx, air>>
    /\ UNCHANGED progVars

\* the radio receives a packet from a transmitter outside the model
RadioArrive(n, p) ==
    /\ budget > 0
    /\ budget' = budget - 1
    /\ radioRx' = Upd(radioRx, n, Append(radioRx[n], p))
    /\ UNCHANGED <<usbIn, btIn, air>>
    /\ UNCHANGED progVars

\* the radio of the addressed node receives a packet another node transmitted
Deliver ==
    /\ air # <<>>
    /\ radioRx' = Upd(radioRx, Head(air).to, Append(radioRx[Head(air).to], Head(air).data))
    /\ air' = Tail(air)
    /\ UNCHANGED <<usbIn, btIn, budget>>
    /\ UNCHANGED progVars

\* a transmitted packet is not received by the addressed node
Lose ==
    /\ air # <<>>
    /\ air' = Tail(air)
    /\ UNCHANGED <<usbIn, btIn, radioRx, budget>>
    /\ UNCHANGED progVars

\* ------------------------------------------------------------ specifications
InitNodes(N, b) ==
    /\ pc = [n \in N |-> "setup"]
    /\ stack = [n \in N |-> <<>>]
    /\ message = [n \in N |-> <<>>]
    /\ sourceTag = [n \in N |-> ""]
    /\ prMsg = [n \in N |-> <<>>]
    /\ beepI = [n \in N |-> 0]
    /\ beepCount = [n \in N |-> 0]
    /\ buzzerPin = [n \in N |-> "FLOAT"]
    /\ usbIn = [n \in N |-> <<>>]
    /\ btIn = [n \in N |-> <<>>]
    /\ radioRx = [n \in N |-> <<>>]
    /\ io = [n \in N |-> <<>>]
    /\ iterBase = [n \in N |-> 0]
    /\ air = <<>>
    /\ budget = b

Program ==
    \/ \E n \in Nodes : setup_init(n)
    \/ \E n \in Nodes : setup_print(n)
    \/ \E n \in Nodes : setup_lora(n)
    \/ \E n \in Nodes : setup_halt(n)
    \/ \E n \in Nodes : setup_beep(n)
    \/ \E n \in Nodes : printToAll_usb(n)
    \/ \E n \in Nodes : printToAll_bt(n)
    \/ \E n \in Nodes : buzzerBeep_high(n)
    \/ \E n \in Nodes : buzzerBeep_low(n)
    \/ \E n \in Nodes : loop_usb(n)
    \/ \E n \in Nodes : loop_usb_read(n)
    \/ \E n \in Nodes : loop_bt(n)
    \/ \E n \in Nodes : loop_bt_read(n)
    \/ \E n \in Nodes : sendLoRaMessage_tx(n)
    \/ \E n \in Nodes : loop_radio(n)
    \/ \E n \in Nodes : loop_beep(n)

\* one node; the rest of the world types bytes and transmits packets
Init == InitNodes({"A"}, MaxEvents)

Next ==
    \/ Program
    \/ \E n \in Nodes, c \in UsbChars : UsbArrive(n, c)
    \/ \E n \in Nodes : UsbPaste(n)
    \/ \E n \in Nodes, c \in BtChars : BtArrive(n, c)
    \/ \E n \in Nodes, p \in Payloads : RadioArrive(n, p)

Spec == Init /\ [][Next]_vars

\* two nodes in radio range of each other; node A has the terminals
InitRT == InitNodes({"A", "B"}, MaxEventsRT)

NextRT ==
    \/ Program
    \/ \E c \in RTChars : UsbArrive("A", c)
    \/ UsbPaste("A")
    \/ \E c \in RTBtChars : BtArrive("A", c)
    \/ Deliver
    \/ Lose

SpecRT == InitRT /\ [][NextRT]_vars

\* --------------------------------------------------------------- projections
IsPrefix(s, t) == Len(s) <= Len(t) /\ SubSeq(t, 1, Len(s)) = s

Datas(evs) == [i \in 1..Len(evs) |-> evs[i].data]

\* the lines written to one serial output, in order
OutLines(n, ch) == Datas(SelectSeq(io[n], LAMBDA e : e.op = "out" /\ e.ch = ch))
UsbOut(n) == OutLines(n, "USB")
BtOut(n) == OutLines(n, "BT")

\* the payloads transmitted over the radio, in order
Sent(n) == Datas(SelectSeq(io[n], LAMBDA e : e.op = "tx"))

\* the number of times the buzzer pin was driven HIGH
Pulses(n) == Len(SelectSeq(io[n], LAMBDA e : e = EvPin("HIGH")))

\* an input was taken: a serial line was read or a radio packet was parsed
IsInput(e) == e.op \in {"read", "rx"}

\* whitespace: space, tab, line feed, vertical tab, form feed, carriage return
White == {" ", "\t", "\n", "\\v", "\f", "\r"}

\* a line with no character other than whitespace
IsBlank(s) == \A i \in 1..Len(s) : s[i] \in White

\* s with its leading and trailing whitespace removed, stated directly:
\* the longest stretch of s that begins and ends with a non-blank character
Trimmed(s) ==
    IF IsBlank(s) THEN <<>>
    ELSE LET lo == CHOOSE i \in 1..Len(s) :
                     s[i] \notin White /\ \A j \in 1..(i - 1) : s[j] \in White
             hi == CHOOSE i \in 1..Len(s) :
                     s[i] \notin White /\ \A j \in (i + 1)..Len(s) : s[j] \in White
         IN  SubSeq(s, lo, hi)

\* the events of io[n] from index i on are, as far as they go, the events of
\* `expected`; they are all there unless the node is still at one of `busy`
Follows(n, i, expected, busy) ==
    /\ \A k \in 1..Len(expected) : i + k <= Len(io[n]) => io[n][i + k] = expected[k]
    /\ Len(io[n]) < i + Len(expected) => pc[n] \in busy
    /\ Len(io[n]) > i + Len(expected) => IsInput(io[n][i + Len(expected) + 1])

PrintLabels == {"printToAll", "printToAll_bt"}
BeepLabels == {"buzzerBeep", "buzzerBeep_on"}

\* ------------------------------------------------------------------- claims
\* C1: every line read from USB or Bluetooth whose trimmed text L is not empty
\* is followed by "[TX <channel>] L" on the USB output, the same line on the
\* Bluetooth output and one radio packet with payload L, in that order and
\* with nothing else before the next input is taken; every radio packet
\* transmitted is the packet of such a line.
C1_Forward ==
    \A n \in Nodes :
        /\ \A i \in 1..Len(io[n]) :
              (io[n][i].op = "read" /\ ~IsBlank(io[n][i].data)) =>
                  LET L == Trimmed(io[n][i].data)
                      line == <<"[TX ", io[n][i].ch, "] ">> \o L
                  IN  Follows(n, i, <<EvOut("USB", line), EvOut("BT", line), EvTx(L)>>,
                              PrintLabels \cup {"sendLoRaMessage_tx"})
        /\ \A j \in 1..Len(io[n]) :
              io[n][j].op = "tx" =>
                  /\ j > 3
                  /\ io[n][j - 3].op = "read"
                  /\ Trimmed(io[n][j - 3].data) = io[n][j].data

\* C2: a step that reads an empty or whitespace-only line appends only the
\* read to the node's operations, returns the node to the next poll of loop()
\* with no message kept, and leaves the other locals, the buzzer pin and the
\* radio as they were.
C2_BlankDropped ==
    [][\A n \in Nodes :
          (/\ Len(io'[n]) > Len(io[n])
           /\ io'[n][Len(io[n]) + 1].op = "read"
           /\ IsBlank(io'[n][Len(io[n]) + 1].data))
          => /\ Len(io'[n]) = Len(io[n]) + 1
             /\ pc'[n] \in {"loop_bt", "loop_radio"}
             /\ message'[n] = <<>> /\ sourceTag'[n] = sourceTag[n]
             /\ prMsg'[n] = prMsg[n] /\ stack'[n] = stack[n]
             /\ buzzerPin'[n] = buzzerPin[n]
             /\ beepI'[n] = beepI[n] /\ beepCount'[n] = beepCount[n]
             /\ radioRx'[n] = radioRx[n] /\ air' = air]_vars

\* C2 witness: a line of a space and CR LF was read and the node polled on
C2_Witness ==
    \E n \in Nodes : \E i \in 1..Len(io[n]) :
        /\ io[n][i] = EvRead("USB", <<" ", "\r">>)
        /\ pc[n] = "loop_bt"
        /\ Len(io[n]) = i

\* what follows a parsed packet with payload P
RxEffects(P) ==
    <<EvOut("USB", <<"[RX] ">> \o P), EvOut("BT", <<"[RX] ">> \o P),
      EvPin("HIGH"), EvPin("LOW"), EvPin("HIGH"), EvPin("LOW")>>

RxBusy == PrintLabels \cup BeepLabels \cup {"loop_beep"}

\* C3 as stated: every packet taken from the radio, whatever its length, is
\* followed by "[RX] P" on both outputs and two buzzer pulses.
C3_AnyPayload ==
    \A n \in Nodes : \A i \in 1..Len(io[n]) :
        io[n][i].op = "rx" => Follows(n, i, RxEffects(io[n][i].data), RxBusy)

\* C3 amended: every packet with a non-empty payload P taken from the radio is
\* followed by "[RX] P" on the USB output, the same on the Bluetooth output
\* and then exactly two buzzer pulses; a packet with an empty payload is
\* followed by nothing.
C3_NonEmptyPayload ==
    \A n \in Nodes : \A i \in 1..Len(io[n]) :
        io[n][i].op = "rx" =>
            IF io[n][i].data # <<>>
            THEN Follows(n, i, RxEffects(io[n][i].data), RxBusy)
            ELSE /\ Len(io[n]) > i => IsInput(io[n][i + 1])
                 /\ Len(io[n]) = i =>
                       pc[n] \in {"loop_usb", "loop_usb_read", "loop_bt", "loop_bt_read",
                                  "loop_radio"}

\* C3 witness: a packet was printed and the two pulses are over
C3_Witness ==
    \E n \in Nodes : \E i \in 1..Len(io[n]) :
        /\ io[n][i] = EvRx(<<" ", "b">>)
        /\ Len(io[n]) = i + 6
        /\ pc[n] = "loop_usb"

LoopLabels == {"loop_usb", "loop_usb_read", "loop_bt", "loop_bt_read", "loop_radio",
               "loop_beep", "sendLoRaMessage_tx"}
InitFailed(n) == \E i \in 1..Len(io[n]) : io[n][i] = EvOut("USB", ErrLine)
InLoop(n) == pc[n] \in LoopLabels \/ \E i \in 1..Len(io[n]) : IsInput(io[n][i])

\* C4: when LoRa.begin fails the buzzer pin is never driven HIGH; when it
\* succeeds, the first pulse comes after the seven banner lines have been
\* written to both outputs, it is over before loop() is entered, and nothing
\* else is pulsed until an input is taken.
C4_StartupPulse ==
    \A n \in Nodes :
        /\ InitFailed(n) => Pulses(n) = 0
        /\ \A i \in 1..Len(io[n]) :
              (io[n][i] = EvPin("HIGH") /\ \A j \in 1..(i - 1) : io[n][j] # EvPin("HIGH"))
              => /\ i = 16
                 /\ \A j \in 2..15 : io[n][j].op = "out"
                 /\ io[n][14] = EvOut("USB", <<"-----------------------------------">>)
                 /\ io[n][15] = EvOut("BT", <<"-----------------------------------">>)
        /\ InLoop(n) =>
              /\ Len(io[n]) >= 17
              /\ io[n][16] = EvPin("HIGH") /\ io[n][17] = EvPin("LOW")
              /\ Len(io[n]) > 17 => IsInput(io[n][18])

\* C4 witness: setup() has returned after its single pulse
C4_Witness ==
    \E n \in Nodes : pc[n] = "loop_usb" /\ Len(io[n]) = 17 /\ Pulses(n) = 1

\* C5: once the error line has been written to both outputs the node is in
\* the halt loop and stays there: the error line is the last thing written
\* and was written once to each output, no step of the node consumes serial
\* input or a radio packet, and nothing is transmitted.
C5_Halt ==
    /\ [](\A n \in Nodes :
            /\ InitFailed(n) =>
                  /\ pc[n] \in PrintLabels \cup {"halt"}
                  /\ Len(io[n]) \in {8, 9}
                  /\ \A i \in 2..Len(io[n]) : io[n][i].op = "out"
                  /\ \A i \in 2..7 : io[n][i].data # ErrLine
                  /\ io[n][8] = EvOut("USB", ErrLine)
                  /\ Len(io[n]) = 9 => io[n][9] = EvOut("BT", ErrLine)
            /\ pc[n] = "halt" =>
                  /\ InitFailed(n)
                  /\ Len(io[n]) = 9)
    /\ [][\A n \in Nodes :
            pc[n] = "halt" =>
               /\ pc'[n] = "halt"
               /\ io'[n] = io[n]
               /\ IsPrefix(usbIn[n], usbIn'[n])
               /\ IsPrefix(btIn[n], btIn'[n])
               /\ IsPrefix(radioRx[n], radioRx'[n])]_vars

\* C5 witness: halted while a line, a Bluetooth line and a packet are waiting
C5_Witness ==
    \E n \in Nodes :
        /\ pc[n] = "halt"
        /\ usbIn[n] # <<>> /\ btIn[n] # <<>> /\ radioRx[n] # <<>>

\* the texts a node forwarded: the trimmed text of every non-blank line it read
RECURSIVE Forwarded(_)
Forwarded(evs) ==
    IF evs = <<>> THEN <<>>
    ELSE LET e == Head(evs)
         IN  (IF e.op = "read" /\ ~IsBlank(e.data) THEN <<Trimmed(e.data)>> ELSE <<>>)
             \o Forwarded(Tail(evs))

\* the packets a node took from its radio
Received(n) == Datas(SelectSeq(io[n], LAMBDA e : e.op = "rx"))

\* the "[RX] ..." lines on one output of a node
RxLines(n, ch) == SelectSeq(OutLines(n, ch), LAMBDA l : Head(l) = "[RX] ")

Peer(n) == CHOOSE m \in Nodes : m # n

\* s can be had from t by leaving elements out
RECURSIVE IsSubseq(_, _)
IsSubseq(s, t) ==
    IF s = <<>> THEN TRUE
    ELSE IF t = <<>> THEN FALSE
    ELSE IF Head(s) = Head(t) THEN IsSubseq(Tail(s), Tail(t))
    ELSE IsSubseq(s, Tail(t))

\* C6: between two nodes, the packets a node takes from its radio are, in
\* order, trimmed texts T of non-blank lines its peer read (those of its
\* packets that were received), and for the k-th packet taken the k-th
\* "[RX]" line on each output is "[RX] " followed by exactly T; each received
\* packet yields one such line per output.
C6_RoundTrip ==
    \A n \in Nodes :
        /\ IsSubseq(Received(n), Forwarded(io[Peer(n)]))
        /\ \A ch \in {"USB", "BT"} :
              /\ Len(RxLines(n, ch)) <= Len(Received(n))
              /\ \A k \in 1..Len(RxLines(n, ch)) :
                    RxLines(n, ch)[k] = <<"[RX] ">> \o Received(n)[k]
              /\ pc[n] \notin PrintLabels => Len(RxLines(n, ch)) = Len(Received(n))

\* C7: the lines on the Bluetooth output are a prefix of the lines on the USB
\* output, at most one line behind, and not behind at all unless a printToAll
\* call is in progress.
C7_Mirror ==
    \A n \in Nodes :
        /\ IsPrefix(BtOut(n), UsbOut(n))
        /\ Len(UsbOut(n)) - Len(BtOut(n)) <= 1
        /\ pc[n] \notin PrintLabels => BtOut(n) = UsbOut(n)

\* C7 witness: a "[TX ...]" line is on the USB output and not yet on Bluetooth
C7_Witness ==
    \E n \in Nodes :
        /\ pc[n] = "printToAll_bt"
        /\ Len(UsbOut(n)) = Len(BtOut(n)) + 1
        /\ Head(UsbOut(n)[Len(UsbOut(n))]) = "[TX "

\* the operations of the current (or, between two calls, the last) loop() call
Iteration(n) == SubSeq(io[n], iterBase[n] + 1, Len(io[n]))

Rank(e) == IF e.op = "rx" THEN 3 ELSE IF e.ch = "BT" THEN 2 ELSE 1

\* C8: within one call of loop() the inputs taken are in the order USB line,
\* Bluetooth line, radio packet, at most one of each, and everything a line
\* causes (its echo on both outputs and its transmission) is over before the
\* next input of that call is taken.
C8_PollOrder ==
    \A n \in Nodes :
        LET it == Iteration(n)
        IN  \A i \in 1..Len(it) : \A j \in (i + 1)..Len(it) :
                (IsInput(it[i]) /\ IsInput(it[j])) =>
                    /\ Rank(it[i]) < Rank(it[j])
                    /\ (it[i].op = "read" /\ ~IsBlank(it[i].data)) =>
                          /\ j >= i + 4
                          /\ it[i + 3].op = "tx"

\* C8 witness: one call of loop() forwarded a USB line, then a Bluetooth line,
\* then printed a radio packet
C8_Witness ==
    \E n \in Nodes :
        LET it == Iteration(n)
        IN  /\ Len(it) = 15
            /\ it[1].op = "read" /\ it[1].ch = "USB" /\ it[4].op = "tx"
            /\ it[5].op = "read" /\ it[5].ch = "BT" /\ it[8].op = "tx"
            /\ it[9].op = "rx"

\* index in io[n] of the last non-empty packet taken from the radio, 0 if none
LastRx(n) ==
    LET S == {i \in 1..Len(io[n]) : io[n][i].op = "rx" /\ io[n][i].data # <<>>}
    IN  IF S = {} THEN 0 ELSE CHOOSE i \in S : \A j \in S : j <= i

\* the two-pulse sequence of the last received packet has started (its line is
\* on both outputs) and its second pulse is not over
RxBeeping(n) ==
    LET r == LastRx(n)
    IN  /\ r > 0
        /\ Len(io[n]) >= r + 2
        /\ Len(io[n]) < r + 6

\* C9: while the two pulses that follow a received packet are in progress, no
\* step consumes serial input or a radio packet, and the only operations the
\* node performs are writes of the buzzer pin.
C9_BeepBlocks ==
    [][\A n \in Nodes :
          RxBeeping(n) =>
             /\ IsPrefix(usbIn[n], usbIn'[n])
             /\ IsPrefix(btIn[n], btIn'[n])
             /\ IsPrefix(radioRx[n], radioRx'[n])
             /\ IsPrefix(io[n], io'[n])
             /\ \A i \in (Len(io[n]) + 1)..Len(io'[n]) : io'[n][i].op = "pin"
             /\ pc'[n] \in BeepLabels \cup {"loop_beep"}]_vars

\* C9 witness: the buzzer is on after a packet while a USB line, a Bluetooth
\* line and another packet are waiting
C9_Witness ==
    \E n \in Nodes :
        /\ RxBeeping(n)
        /\ buzzerPin[n] = "HIGH"
        /\ usbIn[n] # <<>> /\ btIn[n] # <<>>

\* C10: the buzzer pin is HIGH only between buzzerBeep's two writes of it; the
\* node's first peripheral operation writes it LOW and it is LOW in every
\* other state from then on; and at the head of buzzerBeep's loop the last
\* 2*i pin writes are i pulses HIGH, LOW with i <= count.
C10_PinLow ==
    \A n \in Nodes :
        /\ buzzerPin[n] = "HIGH" => pc[n] = "buzzerBeep_on"
        /\ pc[n] \notin {"setup", "buzzerBeep_on"} => buzzerPin[n] = "LOW"
        /\ io[n] # <<>> => io[n][1] = EvPin("LOW")
        /\ pc[n] = "buzzerBeep" =>
              /\ beepI[n] <= beepCount[n]
              /\ Len(io[n]) >= 2 * beepI[n]
              /\ \A k \in 1..(2 * beepI[n]) :
                    io[n][Len(io[n]) - 2 * beepI[n] + k] =
                        EvPin(IF k % 2 = 1 THEN "HIGH" ELSE "LOW")
              /\ io[n][Len(io[n]) - 2 * beepI[n]].op = "out"

\* C10 witness: buzzerBeep(100, 2) is about to return, pin LOW after two pulses
C10_Witness ==
    \E n \in Nodes :
        /\ pc[n] = "buzzerBeep" /\ beepI[n] = 2 /\ beepCount[n] = 2
        /\ buzzerPin[n] = "LOW"
====
